---- MODULE Spec2Model ----
(***************************************************************************)
(* State-machine model of vbench/cmd_benchmark.py: the CmdBenchmark        *)
(* constructor, the run() lifecycle of CmdTimingBenchmark,                 *)
(* CmdGrepBenchmark and CmdPerfBenchmark (setup, repeated _exec, result    *)
(* records, cleanup in the finally clause) and the checksum property.      *)
(*                                                                         *)
(* Python strings are sequences of one-character strings; Python values    *)
(* that may be None, a str, a list or a dict are records [t, v] tagged     *)
(* with their type.                                                        *)
(***************************************************************************)
EXTENDS Integers, Sequences, FiniteSets, TLC

VARIABLES
  self,      \* the benchmark object (NoBench before construction)
  pc,        \* position of the thread inside run()
  ctx,       \* local `ctx` of run(): Unbound until line 67 / 174 has assigned it
  k,         \* number of completed iterations of the for loop (line 71 / 178)
  timings,   \* local `timings` (numpy array of line 68), 1-based here
  events,    \* local `events` (list of line 175)
  exc,       \* the exception being handled ("" when none)
  pending,   \* what the try body left behind when control entered `finally`
  ret,       \* what run() delivered to its caller
  proc,      \* the Popen object of the check_output call in progress
  alive,     \* child processes that have been spawned and have not exited
  log,       \* history of spawn attempts and child exits of this run
  failedAt,  \* 1-based index of the iteration whose _exec raised, 0 if none
  objs,      \* fingerprint specification: the constructed benchmark objects
  given,     \* fingerprint specification: the arguments each object was constructed with
  sums,      \* fingerprint specification: the last checksum read from each object
  before,    \* the object's fields as they were when the current run() was called
  runs,      \* how many times run() has been called on the object
  spawnedBefore  \* the commands the earlier runs spawned: [cmd, argv, env]

runVars == <<self, pc, ctx, k, timings, events, exc, pending, ret, proc, alive, log, failedAt>>
fpVars == <<objs, given, sums>>
frameVars == <<before, runs, spawnedBefore>>
vars == <<self, pc, ctx, k, timings, events, exc, pending, ret, proc, alive, log, failedAt, objs, given, sums,
          before, runs, spawnedBefore>>

----------------------------------------------------------------------------
(* Bounds of the model *)

\* largest `repeat` passed to the constructor
MaxRepeat == 3
\* largest wall-clock duration (in timer ticks) of one timed child
MaxTicks == 3
MaxRuns == 2

----------------------------------------------------------------------------
(* Python values *)

None == [t |-> "None", v |-> <<>>]
Str(s) == [t |-> "str", v |-> s]
List(l) == [t |-> "list", v |-> l]
Dict(d) == [t |-> "dict", v |-> d]

\* truth value of an object in `if self.setup:` / `if self.cleanup:`
Truthy(x) == x.t # "None" /\ Len(x.v) > 0

IsSpace(c) == c \in {" ", "\n", "\t"}

\* str.split() without arguments: runs of whitespace separate, no empty tokens
RECURSIVE SplitWs(_, _, _)
SplitWs(s, cur, acc) ==
  IF s = <<>> THEN (IF cur = <<>> THEN acc ELSE Append(acc, cur))
  ELSE IF IsSpace(Head(s))
       THEN SplitWs(Tail(s), <<>>, IF cur = <<>> THEN acc ELSE Append(acc, cur))
       ELSE SplitWs(Tail(s), Append(cur, Head(s)), acc)

split(s) == SplitWs(s, <<>>, <<>>)

\* str.split(sep) with a one-character separator: empty fields are kept
RECURSIVE SplitOn(_, _, _, _)
SplitOn(s, sep, cur, acc) ==
  IF s = <<>> THEN Append(acc, cur)
  ELSE IF Head(s) = sep
       THEN SplitOn(Tail(s), sep, <<>>, Append(acc, cur))
       ELSE SplitOn(Tail(s), sep, Append(cur, Head(s)), acc)

split_sep(s, sep) == SplitOn(s, sep, <<>>, <<>>)

\* ' '.join(tokens)
RECURSIVE join(_)
join(tokens) ==
  IF tokens = <<>> THEN <<>>
  ELSE IF Len(tokens) = 1 THEN tokens[1]
  ELSE tokens[1] \o <<" ">> \o join(Tail(tokens))

\* repr of a str inside a container: 'text'
repr_str(s) == <<"'">> \o s \o <<"'">>

RECURSIVE repr_items(_)
repr_items(d) ==
  IF d = <<>> THEN <<>>
  ELSE repr_str(d[1][1]) \o <<":", " ">> \o repr_str(d[1][2])
       \o (IF Len(d) > 1 THEN <<",", " ">> \o repr_items(Tail(d)) ELSE <<>>)

RECURSIVE repr_list(_)
repr_list(l) ==
  IF l = <<>> THEN <<>>
  ELSE repr_str(l[1]) \o (IF Len(l) > 1 THEN <<",", " ">> \o repr_list(Tail(l)) ELSE <<>>)

\* str(x) for None, a str, a list of str, a dict of str to str
str(x) ==
  CASE x.t = "None" -> <<"N", "o", "n", "e">>
    [] x.t = "str"  -> x.v
    [] x.t = "list" -> <<"[">> \o repr_list(x.v) \o <<"]">>
    [] x.t = "dict" -> <<"{">> \o repr_items(x.v) \o <<"}">>

----------------------------------------------------------------------------
(* Construction *)

NoBench == [cls |-> "none"]

Classes == {"CmdTimingBenchmark", "CmdGrepBenchmark", "CmdPerfBenchmark"}

\* a split on the single space only, as x.split(' ') would do
normalize_on_space(x) == IF x.t = "str" THEN List(split_sep(x.v, " ")) ELSE x

\* `x.split() if isinstance(x, str) else x`
normalize(x) == IF x.t = "str" THEN List(split(x.v)) ELSE x

\* CmdBenchmark.__init__ with the subclass constructors around it.  No
\* argument is validated: the fields are stored as given, after normalize.
init(a) ==
  [cls         |-> a.cls,
   name        |-> a.name,
   code        |-> normalize(a.code),
   code_env    |-> a.code_env,
   repeat      |-> a.repeat,
   setup       |-> normalize(a.setup),
   setup_env   |-> a.setup_env,
   cleanup     |-> normalize(a.cleanup),
   cleanup_env |-> a.cleanup_env,
   pat         |-> IF a.cls = "CmdGrepBenchmark" THEN a.pattern ELSE None,
   perf        |-> IF a.cls = "CmdPerfBenchmark" THEN normalize(a.perf) ELSE None]

----------------------------------------------------------------------------
(* Constructor arguments drawn by the run specification *)

Env1 == Dict(<< << <<"K">>, <<"v">> >> >>)
Envs == {None, Env1}

\* a pattern object: matches the literal `prefix` followed by a group of one
\* or more non-space characters, as re.compile(prefix + r'(\S+)') would
Pattern(prefix) == [t |-> "pattern", v |-> prefix]

CodeArgs == {Str(<<>>), List(<<>>), Str(<<"a", " ", "b">>)}
SetupArgs == {None, Str(<<"s">>)}
CleanupArgs == {None, List(<< <<"c">> >>)}
Repeats == (0 - 1)..MaxRepeat

RunArgs ==
  { [cls |-> c, name |-> <<"n">>, code |-> co, code_env |-> None, repeat |-> r,
     setup |-> s, setup_env |-> se, cleanup |-> cl, cleanup_env |-> ce,
     pattern |-> IF c = "CmdGrepBenchmark" THEN Pattern(<<"R", "=">>) ELSE None,
     perf |-> IF c = "CmdPerfBenchmark" THEN Str(<<"p">>) ELSE None] :
    c \in Classes, co \in CodeArgs, r \in Repeats, s \in SetupArgs,
    se \in Envs, cl \in CleanupArgs, ce \in Envs }

----------------------------------------------------------------------------
(* Child processes: subprocess.check_output *)

\* the Popen object of child `pid` before the child has been waited for:
\* returncode is still None
NewProc(pid) == [pid |-> pid, done |-> FALSE, returncode |-> 0, output |-> <<>>]
NoProc == NewProc(0)

\* elapsed timer ticks between the two default_timer() calls of line 118/120
Ticks == 1..MaxTicks

\* what the measured command may print (stdout, with stderr for the grep class)
GrepOutputs == { <<"R", "=", "4">>, <<"z", " ", "R", "=", "1", "2", "\n">>,
                 <<"R", "=", "x">>, <<"z">> }
PerfOutputs == { <<"1", ",", "a", "\n", "2", ",", "b", "\n">>,
                 <<"x", ",", "a", "\n">>,
                 <<"z", "\n">>,
                 <<"1", ",", "a", "\n", "2", ",", "a", ",", "z", "\n">> }

Outputs(cmd) ==
  IF cmd # "code" THEN {<<>>}
  ELSE CASE self.cls = "CmdTimingBenchmark" -> {<<>>}
         [] self.cls = "CmdGrepBenchmark"   -> GrepOutputs
         [] self.cls = "CmdPerfBenchmark"   -> PerfOutputs

\* how a child may end: with status 0 or a non-zero status, after some output
ChildResults(c) ==
  {[pid |-> c.pid, done |-> TRUE, returncode |-> rc, output |-> o] :
     rc \in {0, 1}, o \in Outputs(c.cmd)}

\* a call that returns without waiting for its child
NotWaited(p) == TRUE

\* a wait that never returns, as on a child blocked writing to a pipe that
\* nobody reads
WaitsForever(p) == FALSE

\* check_output blocks in communicate() until the child of p has exited
Waited(p) == \A c \in alive : c.pid # p.pid

\* `retcode = process.poll(); if retcode: raise CalledProcessError`
Raises(p) == p.done /\ p.returncode # 0

\* Popen cannot execute an empty argument vector
CanSpawn(argv) == Len(argv.v) > 0

LogEntry(ev, cmd, pid, argv, env, rc, out) ==
  [ev |-> ev, cmd |-> cmd, pid |-> pid, argv |-> argv, env |-> env, rc |-> rc, out |-> out]

\* the child's pid: its position in the history
NextPid == Len(log) + 1

SpawnOk(cmd, argv, env) ==
  /\ CanSpawn(argv)
  /\ alive' = alive \cup {[cmd |-> cmd, pid |-> NextPid]}
  /\ proc' = NewProc(NextPid)
  /\ log' = Append(log, LogEntry("spawn", cmd, NextPid, argv, env, 0, <<>>))

\* the spawn itself fails (OSError, or IndexError for an empty argv)
SpawnFail(cmd, argv, env) ==
  /\ log' = Append(log, LogEntry("spawnfail", cmd, NextPid, argv, env, 0, <<>>))
  /\ UNCHANGED <<alive, proc>>

\* a child exits, with any status and any output
ChildExit(c) ==
  /\ c \in alive
  /\ \E r \in ChildResults(c) :
       /\ proc' = IF proc.pid = c.pid THEN r ELSE proc
       /\ log' = Append(log, LogEntry("exit", c.cmd, c.pid, None, None, r.returncode, r.output))
  /\ alive' = alive \ {c}
  /\ UNCHANGED <<self, pc, ctx, k, timings, events, exc, pending, ret, failedAt>>
  /\ UNCHANGED <<fpVars, frameVars>>

----------------------------------------------------------------------------
(* Measuring one iteration *)

\* re search of a Pattern(prefix) object: the leftmost place where the prefix
\* is followed by a non-space character; group(1) is the greedy run after it
MatchStarts(pat, out) ==
  { i \in 1..Len(out) :
      /\ i + Len(pat.v) <= Len(out)
      /\ SubSeq(out, i, i + Len(pat.v) - 1) = pat.v
      /\ ~IsSpace(out[i + Len(pat.v)]) }

RECURSIVE NonSpaceRun(_)
NonSpaceRun(s) ==
  IF s = <<>> \/ IsSpace(Head(s)) THEN <<>> ELSE <<Head(s)>> \o NonSpaceRun(Tail(s))

\* a search anchored at the start of the text, as re.match does
search_at_start(pat, out) ==
  IF 1 \in MatchStarts(pat, out)
  THEN [found |-> TRUE, group1 |-> NonSpaceRun(SubSeq(out, 1 + Len(pat.v), Len(out)))]
  ELSE [found |-> FALSE, group1 |-> <<>>]

search(pat, out) ==
  LET starts == MatchStarts(pat, out) IN
  IF starts = {} THEN [found |-> FALSE, group1 |-> <<>>]
  ELSE LET i == CHOOSE x \in starts : \A y \in starts : x <= y
       IN [found |-> TRUE, group1 |-> NonSpaceRun(SubSeq(out, i + Len(pat.v), Len(out)))]

Digits == <<"0", "1", "2", "3", "4", "5", "6", "7", "8", "9">>
IsDigit(c) == \E i \in 1..Len(Digits) : Digits[i] = c
DigitVal(c) == (CHOOSE i \in 1..Len(Digits) : Digits[i] = c) - 1

RECURSIVE DecimalVal(_, _)
DecimalVal(s, acc) ==
  IF s = <<>> THEN acc ELSE DecimalVal(Tail(s), 10 * acc + DigitVal(Head(s)))

\* float(text) on the texts the model's outputs contain: a run of decimal
\* digits converts to its value, anything else raises ValueError
float(text) ==
  IF text # <<>> /\ \A i \in 1..Len(text) : IsDigit(text[i])
  THEN [ok |-> TRUE, val |-> DecimalVal(text, 0)]
  ELSE [ok |-> FALSE, val |-> 0]

\* d[key] = val on a dict held as a function from keys to values
Put(d, key, val) == [x \in (DOMAIN d) \cup {key} |-> IF x = key THEN val ELSE d[x]]

EmptyDict == [x \in {} |-> <<>>]

\* a parser that takes only the lines of exactly two columns
RECURSIVE parse_lines_strict(_, _)
parse_lines_strict(lines, event) ==
  IF lines = <<>> THEN event
  ELSE LET col == split_sep(Head(lines), ",")
       IN parse_lines_strict(Tail(lines),
                             IF Len(col) = 2 THEN Put(event, col[2], col[1]) ELSE event)

\* lines 165-169: every line with at least two comma-separated columns sets
\* event[col[1]] = col[0]; a later line with the same key overwrites
RECURSIVE parse_lines(_, _)
parse_lines(lines, event) ==
  IF lines = <<>> THEN event
  ELSE LET col == split_sep(Head(lines), ",")
       IN parse_lines(Tail(lines),
                      IF Len(col) >= 2 THEN Put(event, col[2], col[1]) ELSE event)

parse_perf(output) == parse_lines(split_sep(output, "\n"), EmptyDict)

\* the orders in which event.iteritems() may yield the keys
ItemOrders(event) ==
  LET n == Cardinality(DOMAIN event) IN
  { o \in [1..n -> DOMAIN event] : \A i, j \in 1..n : i # j => o[i] # o[j] }

SeriesSample(key, val) == [succeeded |-> TRUE, series_name |-> key, series_value |-> val]

\* an append placed after the inner for loop: only the last item is recorded
series_records_last(event, o) ==
  IF o = <<>> THEN <<>> ELSE <<SeriesSample(o[Len(o)], event[o[Len(o)]])>>

\* lines 181-186 for one iteration, the keys taken in order o
series_records(event, o) == [i \in 1..Len(o) |-> SeriesSample(o[i], event[o[i]])]

----------------------------------------------------------------------------
(* Result records of the scalar classes: lines 74-81 *)

RECURSIVE Gcd(_, _)
Gcd(a, b) == IF b = 0 THEN a ELSE Gcd(b, a % b)

\* the rational n/d in lowest terms (n >= 0, d > 0)
Ratio(n, d) == LET g == Gcd(n, d) IN [num |-> n \div g, den |-> d \div g]

RECURSIVE Sum(_)
Sum(v) == IF v = <<>> THEN 0 ELSE Head(v) + Sum(Tail(v))

RECURSIVE SumSq(_)
SumSq(v) == IF v = <<>> THEN 0 ELSE Head(v) * Head(v) + SumSq(Tail(v))

RECURSIVE Insert(_, _)
Insert(x, sorted) ==
  IF sorted = <<>> THEN <<x>>
  ELSE IF x <= Head(sorted) THEN <<x>> \o sorted
  ELSE <<Head(sorted)>> \o Insert(x, Tail(sorted))

RECURSIVE Sorted(_)
Sorted(v) == IF v = <<>> THEN <<>> ELSE Insert(Head(v), Sorted(Tail(v)))

min(v) == CHOOSE x \in {v[i] : i \in 1..Len(v)} : \A j \in 1..Len(v) : x <= v[j]
max(v) == CHOOSE x \in {v[i] : i \in 1..Len(v)} : \A j \in 1..Len(v) : x >= v[j]
mean(v) == Ratio(Sum(v), Len(v))
median(v) ==
  LET s == Sorted(v)
      n == Len(v)
  IN IF n % 2 = 1 THEN Ratio(s[(n + 1) \div 2], 1)
     ELSE Ratio(s[n \div 2] + s[n \div 2 + 1], 2)

\* the sample standard deviation (divisor N - 1); not a number for N = 1
std_sample(v) ==
  IF Len(v) = 1 THEN [sqrt_of |-> [num |-> 0, den |-> 0]]
  ELSE [sqrt_of |-> Ratio(Len(v) * SumSq(v) - Sum(v) * Sum(v), Len(v) * (Len(v) - 1))]

\* numpy.std: the square root of the mean squared deviation from the mean
\* (divisor N); kept as the rational under the root
std(v) == [sqrt_of |-> Ratio(Len(v) * SumSq(v) - Sum(v) * Sum(v), Len(v) * Len(v))]

AggregateSuccess(v) ==
  [succeeded     |-> TRUE,
   timing_min    |-> min(v),
   timing_max    |-> max(v),
   timing_mean   |-> mean(v),
   timing_median |-> median(v),
   timing_std    |-> std(v)]

Failure(tb) == [succeeded |-> FALSE, traceback |-> tb]

\* numpy.empty(n): n slots whose content is whatever the memory held
Slot(written, val) == [set |-> written, val |-> val]
empty(n) == [i \in 1..n |-> Slot(FALSE, 0)]

\* the arrays a read of `timings` may see: written slots as written, the
\* others with any content
ArrayReads(t) ==
  { [i \in 1..Len(t) |-> IF t[i].set THEN t[i].val ELSE g[i]] :
      g \in [1..Len(t) -> 0..MaxTicks] }

----------------------------------------------------------------------------
(* run(): CmdBenchmark.run (lines 65-90) and CmdPerfBenchmark.run (172-197) *)

Outcome(kind, records, e) == [kind |-> kind, records |-> records, exc |-> e]
NoOutcome == Outcome("none", <<>>, "")
Return(records) == Outcome("return", records, "")
Raise(e) == Outcome("raise", <<>>, e)

NoSum == [t |-> "None", v |-> <<>>]

Init ==
  /\ self = NoBench
  /\ pc = "idle"
  /\ ctx = "unbound"
  /\ k = 0
  /\ timings = <<>>
  /\ events = <<>>
  /\ exc = ""
  /\ pending = NoOutcome
  /\ ret = NoOutcome
  /\ proc = NoProc
  /\ alive = {}
  /\ log = <<>>
  /\ failedAt = 0
  /\ objs = [i \in 1..2 |-> NoBench]
  /\ given = [i \in 1..2 |-> NoBench]
  /\ sums = [i \in 1..2 |-> NoSum]
  /\ before = NoBench
  /\ runs = 0
  /\ spawnedBefore = {}

IsPerf == self.cls = "CmdPerfBenchmark"

\* the constructor: any arguments are accepted
Construct(a) ==
  /\ self = NoBench
  /\ self' = init(a)
  /\ UNCHANGED <<pc, ctx, k, timings, events, exc, pending, ret, proc, alive, log, failedAt>>
  /\ UNCHANGED <<fpVars, frameVars>>

\* a caller invokes run() on the constructed object
CallRun ==
  /\ pc = "idle"
  /\ self # NoBench
  /\ pc' = "setup"
  /\ before' = self
  /\ runs' = 1
  /\ UNCHANGED <<self, ctx, k, timings, events, exc, pending, ret, proc, alive, log, failedAt>>
  /\ UNCHANGED <<fpVars, spawnedBefore>>

\* a setup call whose exit status is not checked
SetupNeverRaised(p) == FALSE

\* check_output of line 51 raises on a non-zero exit status
SetupRaised(p) == Raises(p)

\* _setup() has returned None: line 67 binds ctx, line 68 / 175 makes the
\* accumulator.  numpy.empty of a negative size raises ValueError, outside
\* the inner try.
EnterTry ==
  /\ ctx' = "None"
  /\ IF IsPerf
     THEN /\ events' = <<>>
          /\ pc' = "loop"
          /\ UNCHANGED <<timings, pending>>
     ELSE IF self.repeat < 0
          THEN /\ pending' = Raise("ValueError")
               /\ pc' = "finally"
               /\ UNCHANGED <<timings, events>>
          ELSE /\ timings' = empty(self.repeat)
               /\ pc' = "loop"
               /\ UNCHANGED <<events, pending>>

\* _setup with no setup command (None or an empty list): nothing is run
SetupSkip ==
  /\ pc = "setup"
  /\ ~Truthy(self.setup)
  /\ EnterTry
  /\ UNCHANGED <<self, k, exc, ret, proc, alive, log, failedAt>>
  /\ UNCHANGED <<fpVars, frameVars>>

SetupSpawn ==
  /\ pc = "setup"
  /\ Truthy(self.setup)
  /\ SpawnOk("setup", self.setup, self.setup_env)
  /\ pc' = "setup_wait"
  /\ UNCHANGED <<self, ctx, k, timings, events, exc, pending, ret, failedAt>>
  /\ UNCHANGED <<fpVars, frameVars>>

\* the setup command cannot be started: the exception leaves the outer try
SetupSpawnFail ==
  /\ pc = "setup"
  /\ Truthy(self.setup)
  /\ SpawnFail("setup", self.setup, self.setup_env)
  /\ pending' = Raise("OSError")
  /\ pc' = "finally"
  /\ UNCHANGED <<self, ctx, k, timings, events, exc, ret, failedAt>>
  /\ UNCHANGED <<fpVars, frameVars>>

\* check_output of line 51 returns or raises once the setup child has exited
SetupReturn ==
  /\ pc = "setup_wait"
  /\ Waited(proc)
  /\ IF SetupRaised(proc)
     THEN /\ pending' = Raise("CalledProcessError")
          /\ pc' = "finally"
          /\ UNCHANGED <<ctx, timings, events>>
     ELSE EnterTry
  /\ UNCHANGED <<self, k, exc, ret, proc, alive, log, failedAt>>
  /\ UNCHANGED <<fpVars, frameVars>>

\* a loop that stops one iteration early
LoopStopsEarly(i, n) == i < n - 1

\* `for k in xrange(self.repeat)`: iteration i (0-based) runs while i < n
LoopContinues(i, n) == i < n

\* a handler inside the loop that tries the iteration again
OnExecErrorRetry == "loop"

\* where an exception raised by _exec is handled: the bare except of the
\* inner try (line 83 / 190), outside the for loop
OnExecError == "except"

\* the argument vector of the measured command (line 119, 138, 162)
CodeArgv == IF IsPerf THEN List(self.perf.v \o self.code.v) ELSE self.code

\* building the command in place: `cmd = self.perf; cmd += self.code`
after_exec_extended(b) ==
  IF b.cls = "CmdPerfBenchmark" THEN [b EXCEPT !.perf = List(b.perf.v \o b.code.v)] ELSE b

\* the object after _exec has built and started its command: `self.perf +
\* self.code` makes a new list, and no _exec assigns to a field of self
after_exec(b) == b

LoopSpawn ==
  /\ pc = "loop"
  /\ LoopContinues(k, self.repeat)
  /\ SpawnOk("code", CodeArgv, self.code_env)
  /\ self' = after_exec(self)
  /\ pc' = "exec_wait"
  /\ UNCHANGED <<ctx, k, timings, events, exc, pending, ret, failedAt>>
  /\ UNCHANGED <<fpVars, frameVars>>

\* the measured command cannot be started: _exec raises
LoopSpawnFail ==
  /\ pc = "loop"
  /\ LoopContinues(k, self.repeat)
  /\ SpawnFail("code", CodeArgv, self.code_env)
  /\ self' = after_exec(self)
  /\ exc' = "OSError"
  /\ failedAt' = k + 1
  /\ pc' = OnExecError
  /\ UNCHANGED <<ctx, k, timings, events, pending, ret>>
  /\ UNCHANGED <<fpVars, frameVars>>

\* check_output in _exec raises: the child exited with a non-zero status
ExecRaise ==
  /\ pc = "exec_wait"
  /\ Waited(proc)
  /\ Raises(proc)
  /\ exc' = "CalledProcessError"
  /\ failedAt' = k + 1
  /\ pc' = OnExecError
  /\ UNCHANGED <<self, ctx, k, timings, events, pending, ret, proc, alive, log>>
  /\ UNCHANGED <<fpVars, frameVars>>

\* CmdTimingBenchmark._exec returns the elapsed time; line 72 stores it
TimingReturn ==
  /\ pc = "exec_wait"
  /\ self.cls = "CmdTimingBenchmark"
  /\ Waited(proc)
  /\ ~Raises(proc)
  /\ \E t \in Ticks : timings' = [timings EXCEPT ![k + 1] = Slot(TRUE, t)]
  /\ k' = k + 1
  /\ pc' = "loop"
  /\ UNCHANGED <<self, ctx, events, exc, pending, ret, proc, alive, log, failedAt>>
  /\ UNCHANGED <<fpVars, frameVars>>

\* CmdGrepBenchmark._exec: search the output, convert group 1
GrepReturn ==
  /\ pc = "exec_wait"
  /\ self.cls = "CmdGrepBenchmark"
  /\ Waited(proc)
  /\ ~Raises(proc)
  /\ LET m == search(self.pat, proc.output)
         f == float(m.group1)
     IN IF m.found /\ f.ok
        THEN /\ timings' = [timings EXCEPT ![k + 1] = Slot(TRUE, f.val)]
             /\ k' = k + 1
             /\ pc' = "loop"
             /\ UNCHANGED <<exc, failedAt>>
        ELSE /\ exc' = IF m.found THEN "ValueError" ELSE "Exception: no match!"
             /\ failedAt' = k + 1
             /\ pc' = OnExecError
             /\ UNCHANGED <<timings, k>>
  /\ UNCHANGED <<self, ctx, events, pending, ret, proc, alive, log>>
  /\ UNCHANGED <<fpVars, frameVars>>

\* CmdPerfBenchmark._exec and lines 181-186: one record per key of the event
PerfReturn ==
  /\ pc = "exec_wait"
  /\ IsPerf
  /\ Waited(proc)
  /\ ~Raises(proc)
  /\ LET event == parse_perf(proc.output)
     IN \E o \in ItemOrders(event) : events' = events \o series_records(event, o)
  /\ k' = k + 1
  /\ pc' = "loop"
  /\ UNCHANGED <<self, ctx, timings, exc, pending, ret, proc, alive, log, failedAt>>
  /\ UNCHANGED <<fpVars, frameVars>>

\* the loop is exhausted: the return statement of line 74 / 188.  min() of an
\* empty array raises ValueError, inside the inner try.
LoopExit ==
  /\ pc = "loop"
  /\ ~LoopContinues(k, self.repeat)
  /\ IF IsPerf
     THEN /\ pending' = Return(events)
          /\ pc' = "finally"
          /\ exc' = exc
     ELSE IF Len(timings) = 0
          THEN /\ exc' = "ValueError"
               /\ pc' = "except"
               /\ pending' = pending
          ELSE /\ \E v \in ArrayReads(timings) : pending' = Return(<<AggregateSuccess(v)>>)
               /\ pc' = "finally"
               /\ exc' = exc
  /\ UNCHANGED <<self, ctx, k, timings, events, ret, proc, alive, log, failedAt>>
  /\ UNCHANGED <<fpVars, frameVars>>

\* lines 83-87 / 190-194: the handler returns one failure record
Except ==
  /\ pc = "except"
  /\ pending' = Return(<<Failure(exc)>>)
  /\ pc' = "finally"
  /\ UNCHANGED <<self, ctx, k, timings, events, exc, ret, proc, alive, log, failedAt>>
  /\ UNCHANGED <<fpVars, frameVars>>

\* line 90 / 197 evaluates the argument `ctx` before _cleanup is entered:
\* when _setup raised, ctx was never assigned and the read raises
FinallyUnbound ==
  /\ pc = "finally"
  /\ ctx = "unbound"
  /\ ret' = Raise("UnboundLocalError")
  /\ pc' = "done"
  /\ UNCHANGED <<self, ctx, k, timings, events, exc, pending, proc, alive, log, failedAt>>
  /\ UNCHANGED <<fpVars, frameVars>>

\* a finally clause that swallows the error of its body
finally_keeps_result(err, result) == result

\* the finally clause of lines 89-90: an exception raised by _cleanup leaves
\* run() in place of the value the try statement was about to return
finally_result(err, result) == IF err # "" THEN Raise(err) ELSE result

\* _cleanup with no cleanup command: run() completes as the try body left it
CleanupSkip ==
  /\ pc = "finally"
  /\ ctx # "unbound"
  /\ ~Truthy(self.cleanup)
  /\ ret' = pending
  /\ pc' = "done"
  /\ UNCHANGED <<self, ctx, k, timings, events, exc, pending, proc, alive, log, failedAt>>
  /\ UNCHANGED <<fpVars, frameVars>>

CleanupSpawn ==
  /\ pc = "finally"
  /\ ctx # "unbound"
  /\ Truthy(self.cleanup)
  /\ SpawnOk("cleanup", self.cleanup, self.cleanup_env)
  /\ pc' = "cleanup_wait"
  /\ UNCHANGED <<self, ctx, k, timings, events, exc, pending, ret, failedAt>>
  /\ UNCHANGED <<fpVars, frameVars>>

\* the cleanup command cannot be started: the exception leaves run()
CleanupSpawnFail ==
  /\ pc = "finally"
  /\ ctx # "unbound"
  /\ Truthy(self.cleanup)
  /\ SpawnFail("cleanup", self.cleanup, self.cleanup_env)
  /\ ret' = finally_result("OSError", pending)
  /\ pc' = "done"
  /\ UNCHANGED <<self, ctx, k, timings, events, exc, pending, failedAt>>
  /\ UNCHANGED <<fpVars, frameVars>>

\* check_output of line 58 returns or raises once the cleanup child has exited
CleanupReturn ==
  /\ pc = "cleanup_wait"
  /\ Waited(proc)
  /\ ret' = finally_result(IF Raises(proc) THEN "CalledProcessError" ELSE "", pending)
  /\ pc' = "done"
  /\ UNCHANGED <<self, ctx, k, timings, events, exc, pending, proc, alive, log, failedAt>>
  /\ UNCHANGED <<fpVars, frameVars>>

Next ==
  \/ \E a \in RunArgs : Construct(a)
  \/ CallRun
  \/ SetupSkip
  \/ SetupSpawn
  \/ SetupSpawnFail
  \/ SetupReturn
  \/ LoopSpawn
  \/ LoopSpawnFail
  \/ ExecRaise
  \/ TimingReturn
  \/ GrepReturn
  \/ PerfReturn
  \/ LoopExit
  \/ Except
  \/ FinallyUnbound
  \/ CleanupSkip
  \/ CleanupSpawn
  \/ CleanupSpawnFail
  \/ CleanupReturn
  \/ \E c \in alive : ChildExit(c)

Spec == Init /\ [][Next]_vars

\* the steps run() itself takes between its call and its end
RunStep ==
  \/ SetupSkip
  \/ SetupSpawn
  \/ SetupSpawnFail
  \/ SetupReturn
  \/ LoopSpawn
  \/ LoopSpawnFail
  \/ ExecRaise
  \/ TimingReturn
  \/ GrepReturn
  \/ PerfReturn
  \/ LoopExit
  \/ Except
  \/ FinallyUnbound
  \/ CleanupSkip
  \/ CleanupSpawn
  \/ CleanupSpawnFail
  \/ CleanupReturn

\* constructor arguments that leave the commands' environments unset
LiveArgs == {a \in RunArgs : a.setup_env = None /\ a.cleanup_env = None}

NextLive ==
  \/ \E a \in LiveArgs : Construct(a)
  \/ CallRun
  \/ RunStep
  \/ \E c \in alive : ChildExit(c)

\* the commands a history shows were spawned, or attempted
Commands(l) ==
  {[cmd |-> l[i].cmd, argv |-> l[i].argv, env |-> l[i].env] :
     i \in {x \in 1..Len(l) : l[x].ev \in {"spawn", "spawnfail"}}}

\* the caller invokes run() again on the same object, after the run before it
\* has ended: the locals of run() start afresh, the object is the one the
\* earlier run left
Rerun ==
  /\ pc = "done"
  /\ runs < MaxRuns
  /\ alive = {}
  /\ before' = self
  /\ runs' = runs + 1
  /\ spawnedBefore' = spawnedBefore \cup Commands(log)
  /\ pc' = "setup"
  /\ ctx' = "unbound"
  /\ k' = 0
  /\ timings' = <<>>
  /\ events' = <<>>
  /\ exc' = ""
  /\ pending' = NoOutcome
  /\ ret' = NoOutcome
  /\ proc' = NoProc
  /\ log' = <<>>
  /\ failedAt' = 0
  /\ UNCHANGED <<self, alive>>
  /\ UNCHANGED fpVars

\* constructor arguments of the repeated-run specification
RerunArgs ==
  {a \in LiveArgs : a.code = Str(<<"a", " ", "b">>) /\ a.repeat \in {1, 2}}

NextRerun ==
  \/ \E a \in RerunArgs : Construct(a)
  \/ CallRun
  \/ RunStep
  \/ \E c \in alive : ChildExit(c)
  \/ Rerun

SpecRerun == Init /\ [][NextRerun]_vars

\* the interpreter keeps executing run(), and every child that was spawned
\* exits at some time
SpecLive ==
  /\ Init
  /\ [][NextLive]_vars
  /\ WF_vars(RunStep)
  /\ WF_vars(\E c \in alive : ChildExit(c))

----------------------------------------------------------------------------
(* History of a run, read off the log *)

SpawnEvents == {"spawn", "spawnfail"}

\* positions of the log at which `cmd` was spawned (or its spawn attempted)
Spawns(cmd) == { i \in 1..Len(log) : log[i].cmd = cmd /\ log[i].ev \in SpawnEvents }
NSpawned(cmd) == Cardinality(Spawns(cmd))

\* positions at which a child of `cmd` failed: not started, or non-zero exit
Failures(cmd) ==
  { i \in 1..Len(log) :
      /\ log[i].cmd = cmd
      /\ \/ log[i].ev = "spawnfail"
         \/ log[i].ev = "exit" /\ log[i].rc # 0 }

SetupFailed == Failures("setup") # {}
CleanupFailed == Failures("cleanup") # {}

IsScalar == self.cls \in {"CmdTimingBenchmark", "CmdGrepBenchmark"}

IsFailureRecord(r) == DOMAIN r = {"succeeded", "traceback"} /\ r.succeeded = FALSE

IsAggregateSuccess(r) ==
  /\ DOMAIN r = {"succeeded", "timing_min", "timing_max", "timing_mean",
                 "timing_median", "timing_std"}
  /\ r.succeeded = TRUE

IsSeriesSample(r) ==
  /\ DOMAIN r = {"succeeded", "series_name", "series_value"}
  /\ r.succeeded = TRUE

OneFailureRecord(o) ==
  /\ o.kind = "return"
  /\ Len(o.records) = 1
  /\ IsFailureRecord(o.records[1])

----------------------------------------------------------------------------
(* Claims about the lifecycle *)

\* C1: in every finished run, whatever happened before, a cleanup command
\* that is present was spawned exactly once, with cleanup_env as environment.
C1_CleanupExactlyOnce ==
  (pc = "done" /\ Truthy(self.cleanup)) =>
    /\ NSpawned("cleanup") = 1
    /\ \A i \in Spawns("cleanup") :
         log[i].argv = self.cleanup /\ log[i].env = self.cleanup_env

\* C2: a run whose setup command failed returns a list of exactly one
\* Failure record.
C2_SetupFailureYieldsOneFailure ==
  (pc = "done" /\ SetupFailed) => OneFailureRecord(ret)

\* C3: once the setup command has failed, the measured command is never
\* spawned and the run is never in its loop.
C3_NoCodeAfterSetupFailure ==
  SetupFailed => (NSpawned("code") = 0 /\ pc \notin {"loop", "exec_wait", "except"})

C3_Witness == pc = "done" /\ SetupFailed /\ self.repeat >= 1 /\ Len(self.code.v) > 0

\* C4: when iteration failedAt is the first one whose _exec raised, the
\* measured command has been spawned exactly failedAt times, then and ever
\* after: no later iteration runs and the failed one is not tried again.
C4_FirstFailureStopsLoop ==
  failedAt > 0 =>
    /\ NSpawned("code") = failedAt
    /\ k = failedAt - 1
    /\ failedAt <= self.repeat
    /\ pc \in {"except", "finally", "cleanup_wait", "done"}

C4_Witness ==
  pc = "done" /\ failedAt >= 2 /\ failedAt < self.repeat /\ NSpawned("code") = failedAt

\* C5: a finished run in which the setup or an iteration failed (and the
\* cleanup did not) returns exactly one Failure record and nothing else.
C5_FailurePathOneFailureRecord ==
  (pc = "done" /\ (SetupFailed \/ failedAt > 0) /\ ~CleanupFailed)
    => OneFailureRecord(ret)

\* C6: for a scalar class with repeat >= 1, a run whose setup did not fail
\* and none of whose iterations failed spawns the measured command exactly
\* repeat times and its result is exactly one aggregate success record; a
\* scalar run has an aggregate success record as its result only if all
\* repeat iterations stored a measurement.
C6_ScalarSuccess ==
  /\ (/\ IsScalar
      /\ self.repeat >= 1
      /\ pc \in {"finally", "cleanup_wait", "done"}
      /\ ~SetupFailed
      /\ failedAt = 0)
       => /\ pending.kind = "return"
          /\ Len(pending.records) = 1
          /\ IsAggregateSuccess(pending.records[1])
          /\ NSpawned("code") = self.repeat
          /\ (pc = "done" /\ ret.kind = "return" => ret = pending)
  /\ (/\ IsScalar
      /\ pending.kind = "return"
      /\ Len(pending.records) >= 1
      /\ pending.records[1].succeeded)
       => /\ self.repeat >= 1
          /\ k = self.repeat
          /\ Len(timings) = self.repeat
          /\ \A i \in 1..Len(timings) : timings[i].set
          /\ Failures("code") = {}
          /\ NSpawned("code") = self.repeat

C6_Witness ==
  /\ pc = "done"
  /\ IsScalar
  /\ self.repeat >= 2
  /\ ret.kind = "return"
  /\ Len(ret.records) = 1
  /\ IsAggregateSuccess(ret.records[1])
  /\ NSpawned("code") = self.repeat

\* the phase of the lifecycle a command belongs to
Phase(cmd) == CASE cmd = "setup" -> 1 [] cmd = "code" -> 2 [] cmd = "cleanup" -> 3

\* C7: at most one child of the run is alive at any time; every child
\* spawned earlier has exited before the next one is spawned; setup comes
\* before every iteration, and every iteration before cleanup.
C7_StrictlySequential ==
  /\ Cardinality(alive) <= 1
  /\ \A i \in 1..Len(log) : \A j \in 1..(i - 1) :
       (log[i].ev \in SpawnEvents /\ log[j].ev = "spawn") =>
          \E m \in (j + 1)..(i - 1) : log[m].ev = "exit" /\ log[m].pid = log[j].pid
  /\ \A i \in 1..Len(log) : \A j \in 1..(i - 1) : Phase(log[j].cmd) <= Phase(log[i].cmd)
  /\ \A c \in alive : \E i \in 1..Len(log) : log[i].ev = "spawn" /\ log[i].pid = c.pid

C7_Witness ==
  /\ pc = "done"
  /\ \E i \in Spawns("setup") : log[i].ev = "spawn"
  /\ Cardinality({i \in Spawns("code") : log[i].ev = "spawn"}) >= 2
  /\ \E i \in Spawns("cleanup") : log[i].ev = "spawn"

\* the distinct series keys of one iteration's output: the second field of
\* every line that has at least two comma-separated fields
SeriesKeys(out) ==
  LET lines == split_sep(out, "\n") IN
  { split_sep(lines[i], ",")[2] :
      i \in { x \in 1..Len(lines) : Len(split_sep(lines[x], ",")) >= 2 } }

\* the outputs of the iterations that completed, in order
RECURSIVE IterationOutputs(_)
IterationOutputs(l) ==
  IF l = <<>> THEN <<>>
  ELSE IF Head(l).cmd = "code" /\ Head(l).ev = "exit" /\ Head(l).rc = 0
       THEN <<Head(l).out>> \o IterationOutputs(Tail(l))
       ELSE IterationOutputs(Tail(l))

RECURSIVE KeyCount(_)
KeyCount(outs) ==
  IF outs = <<>> THEN 0 ELSE Cardinality(SeriesKeys(Head(outs))) + KeyCount(Tail(outs))

\* C8: the result of a multi-series run all of whose iterations succeeded
\* holds, iteration after iteration, exactly one SeriesSample record for each
\* distinct series key of that iteration's output, and nothing else.
C8_OneSamplePerIterationAndKey ==
  (IsPerf /\ pending.kind = "return" /\ failedAt = 0) =>
    LET outs == IterationOutputs(log)
        recs == pending.records
    IN /\ Len(outs) = (IF self.repeat > 0 THEN self.repeat ELSE 0)
       /\ Len(recs) = KeyCount(outs)
       /\ \A i \in 1..Len(recs) : IsSeriesSample(recs[i])
       /\ \A i \in 1..Len(outs) :
            LET off == KeyCount(SubSeq(outs, 1, i - 1))
                n == Cardinality(SeriesKeys(outs[i]))
            IN {recs[off + j].series_name : j \in 1..n} = SeriesKeys(outs[i])
       /\ (pc = "done" /\ ret.kind = "return" => ret = pending)

TwoKeyOutput == <<"1", ",", "a", "\n", "2", ",", "b", "\n">>

C8_Witness ==
  /\ pc = "done"
  /\ IsPerf
  /\ self.repeat = 2
  /\ IterationOutputs(log) = <<TwoKeyOutput, TwoKeyOutput>>
  /\ ret.kind = "return"
  /\ Len(ret.records) = 4
  /\ Cardinality({i \in 1..4 : ret.records[i].series_name = <<"a">>}) = 2
  /\ Cardinality({i \in 1..4 : ret.records[i].series_name = <<"b">>}) = 2

\* C9: no benchmark object with empty code or with repeat < 1 exists (its
\* construction failed), so run() is never executing on one.
C9_MalformedSpecRejected ==
  pc # "idle" => (Len(self.code.v) > 0 /\ self.repeat >= 1)

----------------------------------------------------------------------------
(* The checksum property (lines 92-106) *)

\* `' '.join(cmd) if cmd else str(cmd)`
cmd_text(cmd) == IF Truthy(cmd) THEN join(cmd.v) ELSE str(cmd)

\* str(n) of a small non-negative integer
str_int(n) ==
  IF n < 10 THEN <<Digits[n + 1]>>
  ELSE <<Digits[(n \div 10) + 1], Digits[(n % 10) + 1]>>

\* a checksum text that also hashes the iteration count
checksum_text_with_repeat(b) ==
  join(<< b.name, cmd_text(b.setup), str(b.setup_env), join(b.code.v),
          str(b.code_env), cmd_text(b.cleanup), str(b.cleanup_env), str_int(b.repeat) >>)

\* a checksum text that also hashes the perf command of CmdPerfBenchmark
checksum_text_with_perf(b) ==
  join(<< b.name, cmd_text(b.setup), str(b.setup_env), join(b.code.v),
          str(b.code_env), cmd_text(b.cleanup), str(b.cleanup_env), cmd_text(b.perf) >>)

\* a checksum text that leaves the measured command out
checksum_text_without_code(b) ==
  join(<< b.name, cmd_text(b.setup), str(b.setup_env),
          str(b.code_env), cmd_text(b.cleanup), str(b.cleanup_env) >>)

\* the text handed to hashlib.md5: seven parts joined by single spaces
checksum_text(b) ==
  join(<< b.name, cmd_text(b.setup), str(b.setup_env), join(b.code.v),
          str(b.code_env), cmd_text(b.cleanup), str(b.cleanup_env) >>)

\* hashlib.md5(text).hexdigest(), the digest taken as collision-free: the
\* digest of a text stands for that text and no other
md5_hexdigest(text) == [t |-> "md5", v |-> text]

checksum(b) == md5_hexdigest(checksum_text(b))

\* constructor arguments drawn by the fingerprint specification
FpVariants ==
  { [cls |-> "CmdTimingBenchmark", pattern |-> None, perf |-> None],
    [cls |-> "CmdGrepBenchmark", pattern |-> Pattern(<<"R", "=">>), perf |-> None],
    [cls |-> "CmdGrepBenchmark", pattern |-> Pattern(<<"T", "=">>), perf |-> None],
    [cls |-> "CmdPerfBenchmark", pattern |-> None, perf |-> Str(<<"p">>)],
    [cls |-> "CmdPerfBenchmark", pattern |-> None, perf |-> List(<< <<"q">> >>)] }

FpCodeArgs == {Str(<<" ", "a", " ", " ", "b">>), List(<< <<"a">>, <<"b">> >>), List(<< <<"a">>, <<"c">> >>)}
FpSetupArgs == {None, Str(<<"s", " ", "t">>), List(<< <<"s">>, <<"t">> >>)}

FpCleanupArgs == {None, Str(<<"c", "\t">>), List(<< <<"c">> >>)}
FpRepeats == {1, MaxRepeat}

FpArgs ==
  { [cls |-> var.cls, name |-> <<"n">>, code |-> co, code_env |-> None, repeat |-> r,
     setup |-> s, setup_env |-> None, cleanup |-> cl, cleanup_env |-> None,
     pattern |-> var.pattern, perf |-> var.perf] :
    var \in FpVariants, co \in FpCodeArgs, r \in FpRepeats,
    s \in FpSetupArgs, cl \in FpCleanupArgs }

ObjIds == 1..2

\* a benchmark object is constructed
ConstructObj(i, a) ==
  /\ objs[i] = NoBench
  /\ objs' = [objs EXCEPT ![i] = init(a)]
  /\ given' = [given EXCEPT ![i] = a]
  /\ UNCHANGED sums
  /\ UNCHANGED <<runVars, frameVars>>

\* the checksum property of an object is read
ReadChecksum(i) ==
  /\ objs[i] # NoBench
  /\ sums' = [sums EXCEPT ![i] = checksum(objs[i])]
  /\ UNCHANGED <<objs, given>>
  /\ UNCHANGED <<runVars, frameVars>>

NextFp ==
  \/ \E i \in ObjIds, a \in FpArgs : ConstructObj(i, a)
  \/ \E i \in ObjIds : ReadChecksum(i)

SpecFp == Init /\ [][NextFp]_vars

\* the seven fields the fingerprint is documented to depend on
Identity(b) ==
  <<b.name, b.setup, b.setup_env, b.code, b.code_env, b.cleanup, b.cleanup_env>>

\* C10: two benchmarks that differ at most in repeat have the same checksum.
C10_ChecksumIgnoresRepeat ==
  \A i, j \in ObjIds :
    (/\ sums[i] # NoSum
     /\ sums[j] # NoSum
     /\ [objs[i] EXCEPT !.repeat = objs[j].repeat] = objs[j])
      => sums[i] = sums[j]

C10_Witness ==
  /\ sums[1] # NoSum
  /\ sums[2] # NoSum
  /\ objs[1].repeat # objs[2].repeat
  /\ [objs[1] EXCEPT !.repeat = objs[2].repeat] = objs[2]
  /\ sums[1] = sums[2]

\* the string s spells the tokens l: optional whitespace, then each token in
\* turn, consecutive tokens separated by whitespace, optional whitespace last
RECURSIVE Spells(_, _)
Spells(s, l) ==
  IF l = <<>> THEN \A i \in 1..Len(s) : IsSpace(s[i])
  ELSE IF s # <<>> /\ IsSpace(Head(s)) THEN Spells(Tail(s), l)
  ELSE LET n == Len(l[1])
       IN /\ Len(s) >= n
          /\ SubSeq(s, 1, n) = l[1]
          /\ (Len(s) = n \/ IsSpace(s[n + 1]))
          /\ Spells(SubSeq(s, n + 1, Len(s)), Tail(l))

\* l is the sequence of the whitespace-separated tokens of the string s
Tokenizes(s, l) ==
  /\ \A i \in 1..Len(l) : l[i] # <<>> /\ \A j \in 1..Len(l[i]) : ~IsSpace(l[i][j])
  /\ Spells(s, l)

\* two forms of one command argument: equal, or one the string and the other
\* the sequence of its tokens
SameCommand(x, y) ==
  \/ x = y
  \/ x.t = "str" /\ y.t = "list" /\ Tokenizes(x.v, y.v)
  \/ y.t = "str" /\ x.t = "list" /\ Tokenizes(y.v, x.v)

SameButCommandForm(a, b) ==
  /\ a.cls = b.cls /\ a.name = b.name /\ a.repeat = b.repeat
  /\ a.pattern = b.pattern /\ a.perf = b.perf
  /\ a.code_env = b.code_env /\ a.setup_env = b.setup_env /\ a.cleanup_env = b.cleanup_env
  /\ SameCommand(a.code, b.code)
  /\ SameCommand(a.setup, b.setup)
  /\ SameCommand(a.cleanup, b.cleanup)

\* C11: two benchmarks constructed from the same arguments, except that code,
\* setup or cleanup is given to one as a string and to the other as the
\* sequence of that string's whitespace-separated tokens, hold the same token
\* sequences and have the same checksum.
C11_StringAndSequenceFormsAgree ==
  \A i, j \in ObjIds :
    (objs[i] # NoBench /\ objs[j] # NoBench /\ SameButCommandForm(given[i], given[j]))
      => /\ objs[i] = objs[j]
         /\ objs[i].code.t = "list"
         /\ (sums[i] # NoSum /\ sums[j] # NoSum => sums[i] = sums[j])

C11_Witness ==
  /\ given[1].cls # "none" /\ given[2].cls # "none"
  /\ given[1].code.t = "str" /\ given[2].code.t = "list"
  /\ given[1].setup.t = "str" /\ given[2].setup.t = "list"
  /\ given[1].cleanup.t = "list" /\ given[2].cleanup.t = "str"
  /\ SameButCommandForm(given[1], given[2])
  /\ objs[1] = objs[2]
  /\ sums[1] # NoSum
  /\ sums[1] = sums[2]

\* the positions at which two token sequences of equal length differ
TokenDiffs(x, y) == { p \in 1..Len(x) : x[p] # y[p] }

\* a and b are the same benchmark but for exactly one token of code
OneCodeTokenDiffers(a, b) ==
  /\ a.code.t = "list" /\ b.code.t = "list"
  /\ Len(a.code.v) = Len(b.code.v)
  /\ Cardinality(TokenDiffs(a.code.v, b.code.v)) = 1
  /\ [a EXCEPT !.code = b.code] = b

\* C12: two benchmarks that are the same but for a single token of code have
\* different checksums (the digest being collision-free, different hashed
\* texts).
C12_ChecksumSeesCodeToken ==
  \A i, j \in ObjIds :
    (/\ sums[i] # NoSum
     /\ sums[j] # NoSum
     /\ OneCodeTokenDiffers(objs[i], objs[j]))
      => sums[i] # sums[j]

C12_Witness ==
  /\ sums[1] # NoSum
  /\ sums[2] # NoSum
  /\ OneCodeTokenDiffers(objs[1], objs[2])
  /\ objs[1].code.v[2] = <<"b">>
  /\ objs[2].code.v[2] = <<"c">>
  /\ sums[1] # sums[2]

\* C20: two benchmarks with the same name, setup, setup_env, code, code_env,
\* cleanup and cleanup_env have the same checksum, whatever their class,
\* pattern and perf command are.
C20_ChecksumIgnoresVariant ==
  \A i, j \in ObjIds :
    (/\ sums[i] # NoSum
     /\ sums[j] # NoSum
     /\ Identity(objs[i]) = Identity(objs[j]))
      => sums[i] = sums[j]

C20_Witness ==
  /\ sums[1] # NoSum
  /\ sums[2] # NoSum
  /\ Identity(objs[1]) = Identity(objs[2])
  /\ objs[1].cls = "CmdGrepBenchmark"
  /\ objs[2].cls = "CmdPerfBenchmark"
  /\ objs[1].pat # objs[2].pat
  /\ objs[1].perf # objs[2].perf
  /\ sums[1] = sums[2]

----------------------------------------------------------------------------
(* Claims about the result records *)

\* f[1] + ... + f[n]
RECURSIVE Total(_, _)
Total(f, n) == IF n = 0 THEN 0 ELSE f[n] + Total(f, n - 1)

\* the j-th smallest of the values v (1 <= j <= Len(v)), by counting
KthSmallest(v, j) ==
  CHOOSE x \in {v[i] : i \in 1..Len(v)} :
    /\ Cardinality({i \in 1..Len(v) : v[i] < x}) < j
    /\ Cardinality({i \in 1..Len(v) : v[i] <= x}) >= j

\* the record r carries the statistics of the measurements v: least and
\* greatest value, sum / N, middle value (mean of the two middle values for
\* even N), and under the root of timing_std the mean of the squared
\* deviations from the mean, sum((x - S/N)^2) / N = sum((N*x - S)^2) / N^3
HasStatisticsOf(r, v) ==
  LET n == Len(v)
      S == Total(v, n)
      dev2 == [i \in 1..n |-> (n * v[i] - S) * (n * v[i] - S)]
      var == r.timing_std.sqrt_of
  IN /\ n >= 1
     /\ r.timing_min = KthSmallest(v, 1)
     /\ r.timing_max = KthSmallest(v, n)
     /\ r.timing_mean.den > 0
     /\ r.timing_mean.num * n = S * r.timing_mean.den
     /\ r.timing_median.den > 0
     /\ IF n % 2 = 1
        THEN r.timing_median.num = KthSmallest(v, (n + 1) \div 2) * r.timing_median.den
        ELSE 2 * r.timing_median.num =
               (KthSmallest(v, n \div 2) + KthSmallest(v, (n \div 2) + 1)) * r.timing_median.den
     /\ var.den > 0
     /\ var.num * n * n * n = Total(dev2, n) * var.den

\* the measurements stored by the iterations of a scalar run
Measurements == [i \in 1..Len(timings) |-> timings[i].val]

\* C13: the one success record of a scalar run carries the minimum, maximum,
\* arithmetic mean, median and population standard deviation (divisor N) of
\* the repeat measurements the iterations stored.
C13_AggregateStatistics ==
  (/\ IsScalar
   /\ pending.kind = "return"
   /\ Len(pending.records) >= 1
   /\ pending.records[1].succeeded)
    => /\ Len(pending.records) = 1
       /\ IsAggregateSuccess(pending.records[1])
       /\ Len(timings) = self.repeat
       /\ HasStatisticsOf(pending.records[1], Measurements)
       /\ (pc = "done" /\ ret.kind = "return" => ret = pending)

\* measurements 1, 2, 3: min 1, max 3, mean 2, median 2, variance 2/3
C13_Witness ==
  /\ pc = "done"
  /\ self.cls = "CmdTimingBenchmark"
  /\ Measurements = <<1, 2, 3>>
  /\ ret.kind = "return"
  /\ ret.records = << [succeeded |-> TRUE, timing_min |-> 1, timing_max |-> 3,
                       timing_mean |-> [num |-> 2, den |-> 1],
                       timing_median |-> [num |-> 2, den |-> 1],
                       timing_std |-> [sqrt_of |-> [num |-> 2, den |-> 3]]] >>

\* the history entries of the measured command's children, spawn entries aside
CodeEnds == SelectSeq(log, LAMBDA e : e.cmd = "code" /\ e.ev # "spawn")

\* the text `out` holds the prefix at position i, followed by a non-space
PrefixAt(prefix, out, i) ==
  /\ i >= 1
  /\ i + Len(prefix) <= Len(out)
  /\ \A j \in 1..Len(prefix) : out[i + j - 1] = prefix[j]
  /\ ~IsSpace(out[i + Len(prefix)])

PatternMatches(prefix, out) == \E i \in 1..Len(out) : PrefixAt(prefix, out, i)

\* the first capture group of the leftmost match: the longest stretch without
\* white space that follows the prefix
CaptureGroup(prefix, out) ==
  LET i == CHOOSE x \in 1..Len(out) :
             /\ PrefixAt(prefix, out, x)
             /\ \A y \in 1..(x - 1) : ~PrefixAt(prefix, out, y)
      from == i + Len(prefix)
      to == CHOOSE j \in from..Len(out) :
              /\ \A m \in from..j : ~IsSpace(out[m])
              /\ (j = Len(out) \/ IsSpace(out[j + 1]))
  IN SubSeq(out, from, to)

IsNumber(text) == text # <<>> /\ \A i \in 1..Len(text) : IsDigit(text[i])

RECURSIVE NumberOf(_)
NumberOf(text) ==
  IF text = <<>> THEN 0
  ELSE 10 * NumberOf(SubSeq(text, 1, Len(text) - 1)) + DigitVal(text[Len(text)])

\* the state right after an iteration of the pattern-extraction class
AfterGrepIteration ==
  /\ self.cls = "CmdGrepBenchmark"
  /\ \/ pc = "loop" /\ k >= 1
     \/ pc = "except"
  /\ CodeEnds # <<>>

\* the iteration's outcome, read off the state
IterationOutcome ==
  IF pc = "except" THEN [kind |-> "Failed", diag |-> exc, val |-> 0]
  ELSE [kind |-> "Measured", diag |-> "", val |-> timings[k].val]

\* the outcome the pattern-extraction rules give for the way the iteration's
\* child ended, with a fourth rule for a captured text that is no number
GrepOutcome(e, prefix) ==
  CASE e.ev = "spawnfail" -> [kind |-> "Failed", diag |-> "OSError", val |-> 0]
    [] e.ev = "exit" /\ e.rc # 0 -> [kind |-> "Failed", diag |-> "CalledProcessError", val |-> 0]
    [] e.ev = "exit" /\ e.rc = 0 /\ ~PatternMatches(prefix, e.out) ->
         [kind |-> "Failed", diag |-> "Exception: no match!", val |-> 0]
    [] e.ev = "exit" /\ e.rc = 0 /\ PatternMatches(prefix, e.out)
         /\ ~IsNumber(CaptureGroup(prefix, e.out)) ->
         [kind |-> "Failed", diag |-> "ValueError", val |-> 0]
    [] OTHER -> [kind |-> "Measured", diag |-> "", val |-> NumberOf(CaptureGroup(prefix, e.out))]

\* C14 as stated: a pattern-extraction iteration is Failed when the child exits
\* non-zero or cannot be spawned, Failed when the pattern does not match the
\* output, and Measured in every other case.
C14_ThreeOutcomes ==
  AfterGrepIteration =>
    LET e == CodeEnds[Len(CodeEnds)]
    IN IterationOutcome.kind =
         IF e.ev = "spawnfail" \/ e.rc # 0 \/ ~PatternMatches(self.pat.v, e.out)
         THEN "Failed" ELSE "Measured"

\* C14, amended: a pattern-extraction iteration is Failed when the child exits
\* non-zero or cannot be spawned (whatever it printed), Failed with 'no match!'
\* when the pattern does not match the output, Failed with a conversion error
\* when the first capture group is not a number, and Measured with that number
\* otherwise; after a no-match the run's result is one Failure record, which
\* run returns unless cleanup raises.
C14_GrepOutcomes ==
  /\ AfterGrepIteration =>
       IterationOutcome = GrepOutcome(CodeEnds[Len(CodeEnds)], self.pat.v)
  /\ (/\ self.cls = "CmdGrepBenchmark"
      /\ exc = "Exception: no match!"
      /\ pc \in {"finally", "cleanup_wait", "done"})
       => /\ pending = Return(<<Failure("Exception: no match!")>>)
          /\ (pc = "done" => (ret = pending \/ (ret.kind = "raise" /\ CleanupFailed)))

\* the pattern matched past the start of the output and 12 was measured
C14_Witness ==
  /\ AfterGrepIteration
  /\ CodeEnds[Len(CodeEnds)].out = <<"z", " ", "R", "=", "1", "2", "\n">>
  /\ CodeEnds[Len(CodeEnds)].rc = 0
  /\ IterationOutcome = [kind |-> "Measured", diag |-> "", val |-> 12]

\* C15: when the cleanup command exits non-zero or cannot be spawned, run
\* raises that error instead of returning: the result the try statement had
\* ready, all-succeeded or failure record alike, does not reach the caller.
C15_CleanupErrorPropagates ==
  (pc = "done" /\ CleanupFailed)
    => /\ ret.kind = "raise"
       /\ ret \in {Raise("CalledProcessError"), Raise("OSError")}
       /\ ret # pending

\* every iteration succeeded, then the cleanup command exited non-zero
C15_Witness ==
  /\ pc = "done"
  /\ \E i \in Failures("cleanup") : log[i].ev = "exit"
  /\ self.repeat >= 1
  /\ pending.kind = "return"
  /\ \A i \in 1..Len(pending.records) : pending.records[i].succeeded
  /\ pending.records # <<>>
  /\ ret = Raise("CalledProcessError")

\* the comma-separated fields of each line of a profiler output
FieldsOf(out) ==
  LET lines == split_sep(out, "\n") IN [i \in 1..Len(lines) |-> split_sep(lines[i], ",")]

HasKey(fields) == Len(fields) >= 2
NumericWithKey(fields) == Len(fields) >= 2 /\ IsNumber(fields[1])

\* the mapping an output stands for when the lines Accept takes contribute:
\* each key maps to the first field of the last contributing line naming it
MappingOf(out, Accept(_)) ==
  LET f == FieldsOf(out)
      taken == {i \in 1..Len(f) : Accept(f[i])}
  IN [key \in {f[i][2] : i \in taken} |->
        f[CHOOSE i \in taken : f[i][2] = key /\ \A j \in taken : f[j][2] = key => j <= i][1]]

\* the records recs are, output after output, the entries of the mappings
\* the outputs stand for
RecordsFollow(outs, recs, Accept(_)) ==
  LET size == [i \in 1..Len(outs) |-> Cardinality(DOMAIN MappingOf(outs[i], Accept))]
  IN /\ Len(recs) = Total(size, Len(outs))
     /\ \A i \in 1..Len(outs) :
          LET m == MappingOf(outs[i], Accept) IN
          {recs[Total(size, i - 1) + j] : j \in 1..size[i]}
            = {SeriesSample(key, m[key]) : key \in DOMAIN m}

\* the outputs of the iterations whose samples have been recorded
ParsedOutputs ==
  LET outs == IterationOutputs(log) IN SubSeq(outs, 1, IF k < Len(outs) THEN k ELSE Len(outs))

\* C16 as stated: the mapping parsed in an iteration of the multi-series class
\* has an entry for exactly the lines with a numeric first field and a second
\* field; all other lines contribute nothing.
C16_NumericLinesOnly ==
  IsPerf => RecordsFollow(ParsedOutputs, events, NumericWithKey)

\* C16, amended: the mapping parsed in an iteration of the multi-series class
\* has an entry for exactly the lines with at least two comma-separated
\* fields, whatever the first field holds: the second field is the key, the
\* first field (of the last such line with that key) the value, later fields
\* are ignored, and lines with fewer than two fields contribute nothing.
C16_LinesWithTwoFields ==
  IsPerf => /\ RecordsFollow(ParsedOutputs, events, HasKey)
            /\ (pc \in {"loop", "except", "finally", "cleanup_wait", "done"}
                  => Len(ParsedOutputs) = k)

\* a three-field line was parsed, overwriting the entry of the line before it
C16_Witness ==
  /\ IsPerf
  /\ k = 1
  /\ ParsedOutputs = << <<"1", ",", "a", "\n", "2", ",", "a", ",", "z", "\n">> >>
  /\ events = <<SeriesSample(<<"a">>, <<"2">>)>>

\* the positions in the history of the entries of command cmd with event ev
Entries(cmd, ev) == {i \in 1..Len(log) : log[i].cmd = cmd /\ log[i].ev = ev}

\* the command cmd was started once, and its one child exited with status 0
RanOnceSuccessfully(cmd) ==
  /\ Cardinality(Entries(cmd, "spawn")) = 1
  /\ Entries(cmd, "spawnfail") = {}
  /\ Cardinality(Entries(cmd, "exit")) = 1
  /\ \A i \in Entries(cmd, "exit") : log[i].rc = 0

NeverStarted(cmd) == \A i \in 1..Len(log) : log[i].cmd # cmd

\* C19: when run returns a record list, the setup command was absent or was
\* spawned once and exited with status 0, and the cleanup command was absent
\* or was spawned once, after every child of the setup and measured commands
\* had ended, and exited with status 0: no records are returned after a
\* failed setup or a failed cleanup.
C19_RecordsOnlyAfterCleanSetupAndCleanup ==
  (pc = "done" /\ ret.kind = "return")
    => /\ IF Truthy(self.setup) THEN RanOnceSuccessfully("setup") ELSE NeverStarted("setup")
       /\ IF Truthy(self.cleanup) THEN RanOnceSuccessfully("cleanup") ELSE NeverStarted("cleanup")
       /\ ~SetupFailed
       /\ ~CleanupFailed
       /\ \A i \in Entries("cleanup", "spawn") :
            \A j \in 1..Len(log) : log[j].cmd # "cleanup" => j < i
       /\ ret = pending

\* records returned by a run that has both a setup and a cleanup command
C19_Witness ==
  /\ pc = "done"
  /\ ret.kind = "return"
  /\ ret.records # <<>>
  /\ Truthy(self.setup)
  /\ Truthy(self.cleanup)
  /\ RanOnceSuccessfully("setup")
  /\ RanOnceSuccessfully("cleanup")

\* run() has been called and has neither returned nor raised
Running == pc \notin {"idle", "done"}

\* C17: if every spawned child exits, every run that was started ends (by
\* returning or by raising), whatever the class and the outcomes of setup,
\* iterations and cleanup; a run that returns hands back exactly the record
\* list that was ready when cleanup started, and no step of the cleanup phase
\* changes that list.
C17_RunTerminates ==
  /\ Running ~> (pc = "done")
  /\ [](pc = "done" /\ ret.kind = "return" => ret = pending)
  /\ [][(pc \in {"finally", "cleanup_wait"}) => (pending' = pending)]_vars

\* a run ended by returning its failure record after a cleanup command ran
C17_Witness ==
  /\ pc = "done"
  /\ failedAt > 0
  /\ RanOnceSuccessfully("cleanup")
  /\ ret = Return(<<Failure(exc)>>)
  /\ ret = pending

\* C18: run changes no field of the benchmark object: during and after every
\* run, on every outcome path, name, code, code_env, setup, setup_env,
\* cleanup, cleanup_env, repeat, pat and perf are what they were when run was
\* called; so the checksum after the run is the checksum before it, and a
\* later run spawns each of its commands with the argument vector and
\* environment the earlier runs used.
C18_RunLeavesObjectUnchanged ==
  /\ pc # "idle" => self = before
  /\ pc = "done" => checksum(self) = checksum(before)
  /\ \A c \in Commands(log) : \A b \in spawnedBefore :
       b.cmd = c.cmd => (b.argv = c.argv /\ b.env = c.env)

\* a second run of a multi-series benchmark has ended by returning after
\* spawning the commands of the first: setup, measured command, cleanup
C18_Witness ==
  /\ runs = 2
  /\ pc = "done"
  /\ IsPerf
  /\ ret.kind = "return"
  /\ Cardinality(spawnedBefore) = 3
  /\ Commands(log) = spawnedBefore
  /\ [cmd |-> "code", argv |-> List(<< <<"p">>, <<"a">>, <<"b">> >>), env |-> None] \in Commands(log)

====
